---- MODULE Spec2Model ----
(***************************************************************************)
(* Model of the Agothe quantum agents: ConsciousnessAxiom and its          *)
(* subclasses (agothe_app/core/quantum_consciousness.py), AgentDashboard   *)
(* (agothe_app/navigation/agent_dashboard.py) and DarwinEvolutionProtocol  *)
(* (agothe_app/core/darwin_evolution_protocol.py).                         *)
(*                                                                         *)
(* Numbers.  A numpy vector is modelled exactly as [n |-> <<c1..ck>>,      *)
(* d |-> D]: component j is c_j / sqrt(D), c_j = <<re, im>> a Gaussian     *)
(* integer (im = 0 for a real array).  Its squared L2 norm is              *)
(* SumSq(n) / D, so dividing a vector by its norm gives [n, SumSq(n)].     *)
(* Inputs are drawn in the unit of the vector they are added to, so every  *)
(* sum is exact.  Floating-point rounding is not modelled.                 *)
(***************************************************************************)
EXTENDS Integers, Sequences, FiniteSets, TLC

VARIABLES agents, active_agents, last_update, clock, lastOp, history, evo

vars == <<agents, active_agents, last_update, clock, lastOp, history, evo>>

(***************************************************************************)
(* Bounds of the model                                                     *)
(***************************************************************************)
MaxN == 1          \* largest |re|, |im| of a stored vector component
MaxClock == 2      \* number of timestamped calls followed
MaxDepth == 2      \* largest depth of an evolution run

(***************************************************************************)
(* Arithmetic helpers                                                      *)
(***************************************************************************)
Abs(x) == IF x < 0 THEN -x ELSE x

Min(a, b) == IF a < b THEN a ELSE b

Max(a, b) == IF a > b THEN a ELSE b

RECURSIVE Gcd(_, _)
Gcd(a, b) == IF b = 0 THEN Abs(a) ELSE Gcd(Abs(b), Abs(a) % Abs(b))

CAdd(x, y) == <<x[1] + y[1], x[2] + y[2]>>

CMul(x, y) == <<x[1] * y[1] - x[2] * y[2], x[1] * y[2] + x[2] * y[1]>>

CScale(k, x) == <<k * x[1], k * x[2]>>

\* np.abs(x) ** 2 of one component (numerator part)
AbsSq(x) == x[1] * x[1] + x[2] * x[2]

RECURSIVE SumSq(_)
SumSq(n) == IF n = << >> THEN 0 ELSE AbsSq(Head(n)) + SumSq(Tail(n))

RECURSIVE GcdSeq(_)
GcdSeq(n) == IF n = << >> THEN 0 ELSE Gcd(Gcd(Head(n)[1], Head(n)[2]), GcdSeq(Tail(n)))

RECURSIVE CSum(_)
CSum(n) == IF n = << >> THEN <<0, 0>> ELSE CAdd(Head(n), CSum(Tail(n)))

Vec(n, d) == [n |-> n, d |-> d]

\* The same vector written with the smallest numerators: (k*n)/sqrt(k*k*d) = n/sqrt(d).
Reduce(v) ==
    LET g == GcdSeq(v.n)
    IN  IF g = 0 THEN Vec(v.n, 1)
        ELSE LET k == CHOOSE k \in 1..g :
                        /\ g % k = 0 /\ v.d % (k * k) = 0
                        /\ \A j \in 1..g : (g % j = 0 /\ v.d % (j * j) = 0) => j <= k
             IN  Vec([i \in 1..Len(v.n) |-> <<v.n[i][1] \div k, v.n[i][2] \div k>>],
                     v.d \div (k * k))

\* np.zeros(k)
Zeros(k) == Vec([i \in 1..k |-> <<0, 0>>], 1)

\* the basis vector with 1.0 at (0-based) index i
OneHot(k, i) == Vec([j \in 1..k |-> IF j = i + 1 THEN <<1, 0>> ELSE <<0, 0>>], 1)

IsZeroVec(v) == \A i \in 1..Len(v.n) : v.n[i] = <<0, 0>>

\* L2 norm equal to 1
IsUnit(v) == SumSq(v.n) = v.d

InBound(v) == \A i \in 1..Len(v.n) : Abs(v.n[i][1]) <= MaxN /\ Abs(v.n[i][2]) <= MaxN

(***************************************************************************)
(* quantum_consciousness._normalize                                        *)
(***************************************************************************)
\* normalised[0] = 1.0 on an array without elements: IndexError
NormalizeRaises(v) == Len(v.n) = 0

NormalizeNoFallback(v) == Reduce(Vec(v.n, IF SumSq(v.n) = 0 THEN 1 ELSE SumSq(v.n)))

NormalizeNoDivide(v) == IF SumSq(v.n) = 0 THEN OneHot(Len(v.n), 0) ELSE Reduce(v)

Normalize(v) ==
    IF SumSq(v.n) = 0 THEN OneHot(Len(v.n), 0)
    ELSE Reduce(Vec(v.n, SumSq(v.n)))

(***************************************************************************)
(* numpy broadcasting of two 1-d arrays and a*x + y                        *)
(***************************************************************************)
Broadcastable(u, v) == Len(u.n) = Len(v.n) \/ Len(u.n) = 1 \/ Len(v.n) = 1

BLen(u, v) == IF Len(u.n) = 1 THEN Len(v.n) ELSE Len(u.n)

At(v, i) == IF Len(v.n) = 1 THEN v.n[1] ELSE v.n[i]

\* (p/q) * u + (r/q) * v for two vectors written in the same unit (u.d = v.d)
Combine(p, u, r, v, q) ==
    Vec([i \in 1..BLen(u, v) |-> CAdd(CScale(p, At(u, i)), CScale(r, At(v, i)))],
        u.d * q * q)

\* an input array of integers m, taken in the unit of the vector v
InUnitOf(m, v) == Vec([i \in 1..Len(m) |-> <<m[i], 0>>], v.d)

(***************************************************************************)
(* Fixed-point reals (unit 1/Scale) for coherence() and evaluate_agent()   *)
(***************************************************************************)
Scale == 100 * 100

\* round(Scale * ln k), k = 1..64
LnTab == <<0, 6931, 10986, 13863, 16094, 17918, 19459, 20794, 21972, 23026, 23979,
           24849, 25649, 26391, 27081, 27726, 28332, 28904, 29444, 29957, 30445,
           30910, 31355, 31781, 32189, 32581, 32958, 33322, 33673, 34012, 34340,
           34657, 34965, 35264, 35553, 35835, 36109, 36376, 36636, 36889, 37136,
           37377, 37612, 37842, 38067, 38286, 38501, 38712, 38918, 39120, 39318,
           39512, 39703, 39890, 40073, 40254, 40431, 40604, 40775, 40943, 41109,
           41271, 41431, 41589>>

\* p * np.log(p + 1e-12) for p = k/d; the 1e-12 is below the unit, and 0 * log(1e-12) = 0
PLogP(k, d) == IF k = 0 THEN 0 ELSE (k * (LnTab[k] - LnTab[d])) \div d

RECURSIVE ExpNeg(_)
\* np.exp(-h), h >= 0
ExpNeg(h) ==
    IF h > 5000
    THEN LET e == ExpNeg(h \div 2) IN (e * e) \div Scale
    ELSE LET t1 == h
             t2 == (t1 * h) \div (2 * Scale)
             t3 == (t2 * h) \div (3 * Scale)
             t4 == (t3 * h) \div (4 * Scale)
             t5 == (t4 * h) \div (5 * Scale)
         IN  Scale - t1 + t2 - t3 + t4 - t5

RECURSIVE ISqrtFrom(_, _)
ISqrtFrom(x, r) == IF r * r <= x THEN r ELSE ISqrtFrom(x, (r + x \div r) \div 2)

\* floor(sqrt(x)) by Newton's iteration
ISqrt(x) == IF x < 2 THEN x ELSE ISqrtFrom(x, Min(x \div 2, 46340))

\* np.linalg.norm(v)
Norm(v) == ISqrt((SumSq(v.n) * 1000000) \div v.d) * 10

\* np.tanh(x), x >= 0
Tanh(x) == LET e == ExpNeg(2 * x) IN ((Scale - e) * Scale) \div (Scale + e)

RECURSIVE Entropy(_, _)
\* -np.sum(probabilities * np.log(probabilities + 1e-12)), probabilities = |n_i|^2 / d
Entropy(n, d) == IF n = << >> THEN 0 ELSE Entropy(Tail(n), d) - PLogP(AbsSq(Head(n)), d)

(***************************************************************************)
(* ConsciousnessAxiom and its subclasses                                   *)
(***************************************************************************)
Kinds == {"base", "memory", "learning", "collapse"}

IsAnyAgent(a) == a.kind \in Kinds

\* isinstance(agent, QuantumMemoryNetwork)
IsMemoryNetwork(a) == a.kind \in {"memory", "learning"}

\* isinstance(agent, QuantumLearningNetwork)
IsLearningNetwork(a) == a.kind = "learning"

EmptyMap == [k \in {} |-> Zeros(0)]

Put(m, k, v) == [x \in (DOMAIN m) \cup {k} |-> IF x = k THEN v ELSE m[x]]

Remove(m, k) == [x \in (DOMAIN m) \ {k} |-> m[x]]

DefaultIntentLen == 3

\* the default of the intent argument: np.zeros(3, dtype=float)
DefaultIntent == Zeros(DefaultIntentLen)

\* ConsciousnessAxiom.__post_init__ (the state has at least one component: _normalize
\* raises on an empty array and no agent is constructed)
NewAgent(kind, state, intent, label) ==
    [kind |-> kind,
     state |-> Normalize(state),
     intent |-> intent,
     label |-> label,
     memory |-> EmptyMap,
     memory_entangled |-> EmptyMap]

\* ConsciousnessAxiom.coherence
Coherence(a) == ExpNeg(Entropy(a.state.n, a.state.d))

\* what the + 1e-12 inside the logarithm adds to the coherence, as the k of a factor
\* exp(k * 1e-12): p * log(p + 1e-12) = p * log(p) + 1e-12 to first order for every
\* p > 0, and 0 for p = 0, so that the entropy is lower by 1e-12 per non-zero probability
CoherenceTiny(a) == Cardinality({j \in 1..Len(a.state.n) : AbsSq(a.state.n[j]) # 0})

\* the outcome of a method call: the agent afterwards, the exception raised ("" for
\* none), the vector and the integer returned
Outcome(a, raised, vec, out) == [agent |-> a, raised |-> raised, vec |-> vec, out |-> out]

NoVec == Zeros(0)

\* matrix @ state for a 2-d matrix given by its rows
MatVec(M, v) ==
    Vec([r \in 1..Len(M) |-> CSum([j \in 1..Len(v.n) |-> CMul(M[r][j], v.n[j])])], v.d)

MatVecRaises(M, v) == \E r \in 1..Len(M) : Len(M[r]) # Len(v.n)

\* ConsciousnessAxiom.apply_unitary
ApplyUnitary(a, M) ==
    IF MatVecRaises(M, a.state) THEN Outcome(a, "ValueError", NoVec, -1)
    ELSE IF NormalizeRaises(MatVec(M, a.state)) THEN Outcome(a, "IndexError", NoVec, -1)
    ELSE LET s == Normalize(MatVec(M, a.state))
         IN  Outcome([a EXCEPT !.state = s], "", s, -1)

OutcomesIgnoringProbabilities(probabilities) == 0..(Len(probabilities) - 1)

\* the indices np.random.choice(len, p = probabilities) can return
Outcomes(probabilities) == {o \in 0..(Len(probabilities) - 1) : probabilities[o + 1] > 0}

\* ConsciousnessAxiom.measure(collapse_basis = None) returning outcome o
MeasureBase(a, o) ==
    Outcome([a EXCEPT !.state = OneHot(Len(a.state.n), o)], "", NoVec, o)

\* np.abs(basis @ self.state) ** 2 (numerators)
BasisProbabilities(a, basis) ==
    [j \in 1..Len(basis) |->
        AbsSq(CSum([i \in 1..Len(a.state.n) |-> CMul(basis[j][i], a.state.n[i])]))]

BasisRaises(a, basis) ==
    \/ basis = << >>
    \/ \E j \in 1..Len(basis) : Len(basis[j]) # Len(a.state.n)
    \/ \A j \in 1..Len(basis) : BasisProbabilities(a, basis)[j] = 0

\* ConsciousnessAxiom.measure(collapse_basis) returning outcome o
MeasureBasis(a, basis, o) ==
    IF BasisRaises(a, basis) THEN Outcome(a, "ValueError", NoVec, -1)
    ELSE Outcome([a EXCEPT !.state = Normalize(Vec(basis[o + 1], 1))], "", NoVec, o)

ResizeKeepsTrailing(v, k) ==
    Vec([i \in 1..k |-> IF Len(v.n) - k + i >= 1 THEN v.n[Len(v.n) - k + i] ELSE <<0, 0>>], v.d)

Resize(v, k) ==
    Vec([i \in 1..k |-> IF i <= Len(v.n) THEN v.n[i] ELSE <<0, 0>>], v.d)

\* ConsciousnessAxiom.add_intent; delta is given in the unit of the stored intent
AddIntent(a, delta, weight) ==
    LET stored == IF Len(delta.n) # Len(a.intent.n)
                  THEN Resize(a.intent, Len(delta.n)) ELSE a.intent
        sum == Combine(1, stored, weight, delta, 1)
    IN  IF NormalizeRaises(sum)
        THEN Outcome([a EXCEPT !.intent = stored], "IndexError", NoVec, -1)
        ELSE Outcome([a EXCEPT !.intent = Normalize(sum)], "", Normalize(sum), -1)

\* ConsciousnessAxiom.store_memory
StoreMemory(a, key, value) == [a EXCEPT !.memory = Put(a.memory, key, value)]

\* ConsciousnessAxiom.forget_memory
ForgetMemory(a, key) == [a EXCEPT !.memory = Remove(a.memory, key)]

CollapseKey(k) == <<"collapse_0", "collapse_1", "collapse_2", "collapse_3">>[k + 1]

\* RealityCollapseAxiom.measure: the trace written after super().measure()
CollapseTraceKeyAfterWrite(r) ==
    IF r.raised # "" THEN r
    ELSE [r EXCEPT !.agent = StoreMemory(r.agent, CollapseKey(Cardinality(DOMAIN r.agent.memory) + 1),
              Vec(<< <<r.out * Scale, 0>>, <<Coherence(r.agent), 0>> >>, Scale * Scale))]

CollapseTrace(r) ==
    IF r.raised # "" THEN r
    ELSE [r EXCEPT !.agent = StoreMemory(r.agent, CollapseKey(Cardinality(DOMAIN r.agent.memory)),
              Vec(<< <<r.out * Scale, 0>>, <<Coherence(r.agent), 0>> >>, Scale * Scale))]

\* agent.measure() by class
Measure(a, o) ==
    IF a.kind = "collapse" THEN CollapseTrace(MeasureBase(a, o)) ELSE MeasureBase(a, o)

MeasureWith(a, basis, o) ==
    IF a.kind = "collapse" THEN CollapseTrace(MeasureBasis(a, basis, o))
    ELSE MeasureBasis(a, basis, o)

LearningRateDen == 4

\* QuantumLearningNetwork.quantum_learn; gradient (reward added) in the unit of the intent
QuantumLearn(a, gradient) ==
    LET sum == Combine(LearningRateDen, a.intent, 1, gradient, LearningRateDen)
    IN  IF NormalizeRaises(sum) THEN Outcome(a, "IndexError", NoVec, -1)
        ELSE Outcome([a EXCEPT !.intent = Normalize(sum)], "", Normalize(sum), -1)

\* QuantumLearningNetwork.adapt_from_feedback
AdaptFromFeedback(a, feedback, weight) ==
    IF ~Broadcastable(a.intent, feedback) THEN Outcome(a, "ValueError", NoVec, -1)
    ELSE LET sum == Combine(1, a.intent, weight, feedback, 1)
         IN  IF NormalizeRaises(sum) THEN Outcome(a, "IndexError", NoVec, -1)
             ELSE Outcome([a EXCEPT !.intent = Normalize(sum)], "", NoVec, -1)

\* QuantumMemoryNetwork.entangle_memory(other, key, strength = p/q): the exception raised
EntangleRaises(a, b, key, p, q) ==
    IF key \notin DOMAIN a.memory \/ key \notin DOMAIN b.memory THEN "KeyError"
    ELSE IF ~Broadcastable(a.memory[key], b.memory[key]) THEN "ValueError"
    ELSE IF NormalizeRaises(Combine(p, a.memory[key], q - p, b.memory[key], q)) THEN "IndexError"
    ELSE ""

\* combined = _normalize(strength * self.memory[key] + (1 - strength) * other.memory[key])
Combined(a, b, key, p, q) == Normalize(Combine(p, a.memory[key], q - p, b.memory[key], q))

EntangleWrite(a, key, combined) ==
    [a EXCEPT !.memory_entangled = Put(a.memory_entangled, key, combined)]

EntangleMemoryAlsoOverwritesMemory(a, b, key, p, q) ==
    IF EntangleRaises(a, b, key, p, q) # ""
    THEN [first |-> a, second |-> b, raised |-> EntangleRaises(a, b, key, p, q), vec |-> NoVec]
    ELSE [first |-> StoreMemory(EntangleWrite(a, key, Combined(a, b, key, p, q)), key,
                                Combined(a, b, key, p, q)),
          second |-> EntangleWrite(b, key, Combined(a, b, key, p, q)),
          raised |-> "", vec |-> Combined(a, b, key, p, q)]

EntangleMemoryWritesBeforeCheck(a, b, key, p, q) ==
    IF EntangleRaises(a, b, key, p, q) # ""
    THEN [first |-> EntangleWrite(a, key, Zeros(1)), second |-> b,
          raised |-> EntangleRaises(a, b, key, p, q), vec |-> NoVec]
    ELSE [first |-> EntangleWrite(a, key, Combined(a, b, key, p, q)),
          second |-> EntangleWrite(b, key, Combined(a, b, key, p, q)),
          raised |-> "", vec |-> Combined(a, b, key, p, q)]

\* QuantumMemoryNetwork.entangle_memory: self and other afterwards, the exception, the result
EntangleMemory(a, b, key, p, q) ==
    IF EntangleRaises(a, b, key, p, q) # ""
    THEN [first |-> a, second |-> b, raised |-> EntangleRaises(a, b, key, p, q), vec |-> NoVec]
    ELSE [first |-> EntangleWrite(a, key, Combined(a, b, key, p, q)),
          second |-> EntangleWrite(b, key, Combined(a, b, key, p, q)),
          raised |-> "", vec |-> Combined(a, b, key, p, q)]

(***************************************************************************)
(* The record of the last call: its name, the agent indices and key it was *)
(* given, the exception it raised ("" for none), the keys of a returned    *)
(* result dict with its success (ok) and error (err) values, the vector    *)
(* and integer                                                             *)
(* returned, whether the vector handed to _normalize was all-zero, and a   *)
(* numeric argument: p/q (arg = <<p, q>>), or the shape of a matrix.       *)
(***************************************************************************)
NoOp ==
    [op |-> "none", a |-> -1, b |-> -1, key |-> "", raised |-> "", ok |-> TRUE,
     err |-> "", keys |-> {}, vec |-> NoVec, zero |-> FALSE, out |-> -1, arg |-> <<0, 1>>,
     pc |-> "done", delta |-> NoVec]

Called(op, a, r) ==
    [NoOp EXCEPT !.op = op, !.a = a, !.raised = r.raised, !.vec = r.vec, !.out = r.out]

(***************************************************************************)
(* SpecState: one agent, its state under apply_unitary and measure         *)
(***************************************************************************)
Amplitudes == {<<0, 0>>, <<1, 0>>, <<-1, 0>>, <<0, 1>>, <<2, 0>>}

\* initial state arrays, normalised or not, the all-zero one included
StateInputs == {<<x>> : x \in Amplitudes} \cup {<<x, y>> : x \in Amplitudes, y \in Amplitudes}

MZero == << << <<0, 0>>, <<0, 0>> >>, << <<0, 0>>, <<0, 0>> >> >>
MX == << << <<0, 0>>, <<1, 0>> >>, << <<1, 0>>, <<0, 0>> >> >>
MH == << << <<1, 0>>, <<1, 0>> >>, << <<1, 0>>, <<-1, 0>> >> >>
MS == << << <<1, 0>>, <<0, 0>> >>, << <<0, 0>>, <<0, 1>> >> >>
MShear == << << <<1, 0>>, <<1, 0>> >>, << <<0, 0>>, <<1, 0>> >> >>
MRow == << << <<1, 0>>, <<1, 0>> >> >>
MWide == << << <<1, 0>>, <<0, 0>>, <<0, 0>> >>, << <<0, 0>>, <<1, 0>>, <<0, 0>> >> >>
MOne == << << <<0, 1>> >> >>
MNoRows == << >>

\* arguments of apply_unitary: unitary or not, square or not
Matrices == {MZero, MX, MH, MS, MShear, MRow, MWide, MOne, MNoRows}

\* arguments of measure(collapse_basis)
Bases == { << <<<<1, 0>>, <<0, 0>>>>, <<<<0, 0>>, <<1, 0>>>> >>,
           << <<<<1, 0>>, <<1, 0>>>>, <<<<1, 0>>, <<-1, 0>>>> >>,
           << <<<<0, 0>>, <<0, 0>>>>, <<<<0, 0>>, <<2, 0>>>> >>,
           << <<<<1, 0>>>> >>,
           << >> }

MaxTraces == 1

TraceRoom(a) == a.kind = "collapse" => Cardinality(DOMAIN a.memory) < MaxTraces

\* no evolution run has been started
EvoIdle ==
    [pc |-> "idle", pop |-> << >>, depth |-> 0, gen |-> 0, base |-> 0, run |-> 0,
     best |-> -1, raised |-> ""]

InitRest ==
    /\ active_agents = {}
    /\ last_update = 0
    /\ clock = 0
    /\ history = << >>
    /\ evo = EvoIdle

InitState ==
    /\ \E kind \in {"base", "collapse"}, s \in StateInputs :
          /\ agents = <<NewAgent(kind, Vec(s, 1), DefaultIntent, "agent")>>
          /\ lastOp = [NoOp EXCEPT !.op = "__post_init__", !.a = 0, !.zero = IsZeroVec(Vec(s, 1))]
    /\ InitRest

\* matrix.shape: rows, columns
Shape(M) == <<Len(M), IF M = << >> THEN 0 ELSE Len(M[1])>>

DoApplyUnitary(i, M) ==
    LET r == ApplyUnitary(agents[i + 1], M)
    IN  /\ InBound(r.agent.state)
        /\ agents' = [agents EXCEPT ![i + 1] = r.agent]
        /\ lastOp' = [Called("apply_unitary", i, r) EXCEPT
                         !.zero = /\ ~MatVecRaises(M, agents[i + 1].state)
                                  /\ IsZeroVec(MatVec(M, agents[i + 1].state)),
                         !.arg = Shape(M)]
        /\ UNCHANGED <<active_agents, last_update, clock, history, evo>>

DoMeasure(i) ==
    /\ TraceRoom(agents[i + 1])
    /\ \E o \in Outcomes([j \in 1..Len(agents[i + 1].state.n) |-> AbsSq(agents[i + 1].state.n[j])]) :
          LET r == Measure(agents[i + 1], o)
          IN  /\ agents' = [agents EXCEPT ![i + 1] = r.agent]
              /\ lastOp' = Called("measure", i, r)
    /\ UNCHANGED <<active_agents, last_update, clock, history, evo>>

DoMeasureBasis(i, basis) ==
    /\ TraceRoom(agents[i + 1])
    /\ \E o \in IF BasisRaises(agents[i + 1], basis) THEN {-1}
                ELSE Outcomes(BasisProbabilities(agents[i + 1], basis)) :
          LET r == MeasureWith(agents[i + 1], basis, o)
          IN  /\ InBound(r.agent.state)
              /\ agents' = [agents EXCEPT ![i + 1] = r.agent]
              /\ lastOp' = [Called("measure_basis", i, r) EXCEPT
                               !.zero = r.raised = "" /\ IsZeroVec(Vec(basis[o + 1], 1))]
    /\ UNCHANGED <<active_agents, last_update, clock, history, evo>>

AgentIds == 0..(Len(agents) - 1)

NextState ==
    \/ \E i \in AgentIds, M \in Matrices : DoApplyUnitary(i, M)
    \/ \E i \in AgentIds : DoMeasure(i)
    \/ \E i \in AgentIds, basis \in Bases : DoMeasureBasis(i, basis)

SpecState == InitState /\ [][NextState]_vars

(***************************************************************************)
(* C1: after construction and after any sequence of apply_unitary,         *)
(* measure() and measure(basis) calls the state has L2 norm 1, and when    *)
(* the vector handed to _normalize was all-zero the state is the basis     *)
(* state with amplitude 1 at index 0.                                      *)
(***************************************************************************)
C1_StateNormalized ==
    /\ \A i \in 1..Len(agents) : IsUnit(agents[i].state)
    /\ (/\ lastOp.op \in {"__post_init__", "apply_unitary", "measure_basis"}
        /\ lastOp.raised = ""
        /\ lastOp.zero)
       => agents[lastOp.a + 1].state = OneHot(Len(agents[lastOp.a + 1].state.n), 0)

\* apply_unitary was given a matrix that maps the state to the zero vector
C1_Witness ==
    /\ lastOp.op = "apply_unitary" /\ lastOp.raised = ""
    /\ lastOp.zero
    /\ agents[1].state = OneHot(2, 0)

(***************************************************************************)
(* SpecIntent: one agent, its intent under add_intent, quantum_learn and   *)
(* adapt_from_feedback                                                     *)
(***************************************************************************)
MaxLen == 2        \* longest input array

Ints == (0 - MaxN)..MaxN

\* integer arrays of length 0..k
RECURSIVE Arrays(_)
Arrays(k) ==
    IF k = 0 THEN {<< >>}
    ELSE Arrays(k - 1) \cup {Append(m, x) : m \in {y \in Arrays(k - 1) : Len(y) = k - 1}, x \in Ints}

\* intent arguments of the constructor: the default, unit and non-unit vectors, no elements
IntentInputs ==
    {DefaultIntent, Zeros(0), Vec(<< <<1, 0>>, <<0, 0>> >>, 1), Vec(<< <<2, 0>>, <<0, 0>> >>, 1),
     Vec(<< <<1, 0>>, <<1, 0>> >>, 1)}

Weights == {1, -1}

IntentOps == {"add_intent", "quantum_learn", "adapt_from_feedback"}

InitIntent ==
    /\ \E kind \in {"base", "learning"}, v \in IntentInputs :
          agents = <<NewAgent(kind, OneHot(2, 0), v, "agent")>>
    /\ lastOp = [NoOp EXCEPT !.op = "__post_init__", !.a = 0]
    /\ InitRest

DoAddIntent(i, m, weight) ==
    LET a == agents[i + 1]
        delta == InUnitOf(m, a.intent)
        r == AddIntent(a, delta, weight)
    IN  /\ InBound(r.agent.intent)
        /\ agents' = [agents EXCEPT ![i + 1] = r.agent]
        /\ lastOp' = [Called("add_intent", i, r) EXCEPT
                         !.zero = IsZeroVec(Combine(1, Resize(a.intent, Len(m)), weight, delta, 1))]
        /\ UNCHANGED <<active_agents, last_update, clock, history, evo>>

\* np.random.randn(*self.intent.shape), plus the reward when one is given
Gradients(a) ==
    {InUnitOf([j \in 1..Len(m) |-> LearningRateDen * m[j]], a.intent) :
        m \in {y \in Arrays(DefaultIntentLen) : Len(y) = Len(a.intent.n)}}

DoQuantumLearn(i) ==
    /\ IsLearningNetwork(agents[i + 1])
    /\ \E gradient \in Gradients(agents[i + 1]) :
          LET r == QuantumLearn(agents[i + 1], gradient)
          IN  /\ InBound(r.agent.intent)
              /\ agents' = [agents EXCEPT ![i + 1] = r.agent]
              /\ lastOp' = [Called("quantum_learn", i, r) EXCEPT
                               !.zero = IsZeroVec(Combine(LearningRateDen, agents[i + 1].intent,
                                                          1, gradient, LearningRateDen))]
    /\ UNCHANGED <<active_agents, last_update, clock, history, evo>>

DoAdaptFromFeedback(i, m, weight) ==
    LET a == agents[i + 1]
        feedback == InUnitOf(m, a.intent)
        r == AdaptFromFeedback(a, feedback, weight)
    IN  /\ IsLearningNetwork(a)
        /\ InBound(r.agent.intent)
        /\ agents' = [agents EXCEPT ![i + 1] = r.agent]
        /\ lastOp' = [Called("adapt_from_feedback", i, r) EXCEPT
                         !.zero = /\ Broadcastable(a.intent, feedback)
                                  /\ IsZeroVec(Combine(1, a.intent, weight, feedback, 1))]
        /\ UNCHANGED <<active_agents, last_update, clock, history, evo>>

NextIntent ==
    \/ \E i \in AgentIds, m \in Arrays(MaxLen), w \in Weights : DoAddIntent(i, m, w)
    \/ \E i \in AgentIds : DoQuantumLearn(i)
    \/ \E i \in AgentIds, m \in Arrays(MaxLen), w \in Weights : DoAdaptFromFeedback(i, m, w)

SpecIntent == InitIntent /\ [][NextIntent]_vars

(***************************************************************************)
(* C2: after every add_intent, quantum_learn and adapt_from_feedback call  *)
(* that returns or that changes the intent, the stored intent has L2 norm  *)
(* 1 or is all-zero, and it is all-zero only if the sum handed to          *)
(* _normalize was exactly zero.                                            *)
(***************************************************************************)
C2_IntentNormalized ==
    [][(/\ lastOp'.op \in IntentOps
        /\ lastOp'.raised = "" \/ agents' # agents)
       => LET v == agents'[lastOp'.a + 1].intent
          IN  \/ IsUnit(v)
              \/ IsZeroVec(v) /\ lastOp'.zero]_vars

\* add_intent returned after a sum that was exactly zero
C2_Witness ==
    /\ lastOp.op = "add_intent" /\ lastOp.raised = "" /\ lastOp.zero
    /\ IsUnit(agents[1].intent)

(***************************************************************************)
(* SpecMem: two agents, their memories under store_memory, forget_memory   *)
(* and entangle_memory                                                     *)
(***************************************************************************)
Keys == {"baseline"}

\* arrays stored as memories: opposite vectors, different lengths, no elements
MemValues ==
    {InUnitOf(m, Zeros(0)) : m \in {<<1, 0>>, <<-1, 0>>, <<1, 0, 0>>, << >>}}

\* strength: the default 0.5, and 0.25
Strengths == {<<1, 2>>, <<1, 4>>}

InitMem ==
    /\ \E kind \in {"learning", "collapse"} :
          agents = <<NewAgent("memory", OneHot(2, 0), DefaultIntent, "memory_0"),
                     NewAgent(kind, OneHot(2, 0), DefaultIntent, "other_1")>>
    /\ lastOp = [NoOp EXCEPT !.op = "__post_init__", !.a = 0]
    /\ InitRest

DoStoreMemory(i, key, value) ==
    /\ agents' = [agents EXCEPT ![i + 1] = StoreMemory(agents[i + 1], key, value)]
    /\ lastOp' = [NoOp EXCEPT !.op = "store_memory", !.a = i, !.key = key, !.vec = value]
    /\ UNCHANGED <<active_agents, last_update, clock, history, evo>>

DoForgetMemory(i, key) ==
    /\ agents' = [agents EXCEPT ![i + 1] = ForgetMemory(agents[i + 1], key)]
    /\ lastOp' = [NoOp EXCEPT !.op = "forget_memory", !.a = i, !.key = key]
    /\ UNCHANGED <<active_agents, last_update, clock, history, evo>>

\* agents[i].entangle_memory(agents[j], key, strength); i = j is the same object twice
DoEntangleMemory(i, j, key, strength) ==
    LET r == EntangleMemory(agents[i + 1], agents[j + 1], key, strength[1], strength[2])
    IN  /\ IsMemoryNetwork(agents[i + 1])
        /\ agents' = IF i = j
                     THEN [agents EXCEPT ![i + 1] = r.first]
                     ELSE [agents EXCEPT ![i + 1] = r.first, ![j + 1] = r.second]
        /\ lastOp' = [NoOp EXCEPT !.op = "entangle_memory", !.a = i, !.b = j, !.key = key,
                                  !.raised = r.raised, !.vec = r.vec, !.arg = strength]
        /\ UNCHANGED <<active_agents, last_update, clock, history, evo>>

NextMem ==
    \/ \E i \in AgentIds, key \in Keys, value \in MemValues : DoStoreMemory(i, key, value)
    \/ \E i \in AgentIds, key \in Keys : DoForgetMemory(i, key)
    \/ \E i \in AgentIds, j \in AgentIds, key \in Keys, s \in Strengths :
          DoEntangleMemory(i, j, key, s)

SpecMem == InitMem /\ [][NextMem]_vars

(***************************************************************************)
(* C4: entangle_memory raises the missing-key error whenever the key is    *)
(* absent from self.memory or from other.memory, and then no agent is      *)
(* changed.                                                                *)
(***************************************************************************)
C4_MissingKeyNoChange ==
    [][(/\ lastOp'.op = "entangle_memory"
        /\ \/ lastOp'.key \notin DOMAIN agents[lastOp'.a + 1].memory
           \/ lastOp'.key \notin DOMAIN agents[lastOp'.b + 1].memory)
       => lastOp'.raised = "KeyError" /\ agents' = agents]_vars

\* the key is stored on self but not on other, and the call raised
C4_Witness ==
    /\ lastOp.op = "entangle_memory" /\ lastOp.raised = "KeyError" /\ lastOp.a # lastOp.b
    /\ lastOp.key \in DOMAIN agents[lastOp.a + 1].memory
    /\ lastOp.key \notin DOMAIN agents[lastOp.b + 1].memory

(***************************************************************************)
(* C5: a successful entangle_memory leaves memory of every agent as it     *)
(* was, makes memory_entangled[key] of both agents the returned vector,    *)
(* and a repeated call with the same agents, key and strength returns the  *)
(* same vector again.                                                      *)
(***************************************************************************)
SameCall(x, y) == x.op = y.op /\ x.a = y.a /\ x.b = y.b /\ x.key = y.key /\ x.arg = y.arg

C5_EntangleIdempotent ==
    [][(lastOp'.op = "entangle_memory" /\ lastOp'.raised = "")
       => /\ agents'[lastOp'.a + 1].memory_entangled[lastOp'.key] = lastOp'.vec
          /\ agents'[lastOp'.b + 1].memory_entangled[lastOp'.key] = lastOp'.vec
          /\ \A i \in 1..Len(agents) : agents'[i].memory = agents[i].memory
          /\ (SameCall(lastOp, lastOp') /\ lastOp.raised = "") => lastOp'.vec = lastOp.vec]_vars

\* two different agents hold the same entangled vector under the key, their memories differ
C5_Witness ==
    /\ lastOp.op = "entangle_memory" /\ lastOp.raised = "" /\ lastOp.a # lastOp.b
    /\ agents[lastOp.a + 1].memory[lastOp.key] # agents[lastOp.b + 1].memory[lastOp.key]
    /\ agents[lastOp.a + 1].memory_entangled[lastOp.key] = lastOp.vec
    /\ agents[lastOp.b + 1].memory_entangled[lastOp.key] = lastOp.vec

(***************************************************************************)
(* SpecDash: AgentDashboard over three agents.  Every call is made at a    *)
(* later time than the one before; datetime.utcnow() returns clock.        *)
(***************************************************************************)
ErrRange == "Agent ID out of range"
ErrSelf == "Cannot entangle an agent with itself"
ErrLearning == "Agent does not support learning"
ErrEntangle == "Both agents must support entanglement"
ErrMissingKey == "Memory key missing on one of the agents"

\* {"success": False, "error": err}
Failure(op, a, b, key, err) ==
    [NoOp EXCEPT !.op = op, !.a = a, !.b = b, !.key = key, !.ok = FALSE, !.err = err,
                 !.keys = {"success", "error"}]

\* {"success": True, "message": ..., further keys}
Success(op, a, b, key, more) ==
    [NoOp EXCEPT !.op = op, !.a = a, !.b = b, !.key = key, !.ok = TRUE,
                 !.keys = {"success", "message", "timestamp"} \cup more]

\* 0 <= agent_id < len(self.agents)
ValidId(id) == 0 <= id /\ id < Len(agents)

\* agent indices a caller may pass
IdInputs == (0 - 1)..Len(agents)

DashIntentInputs == {<<1, 0, 0>>, <<-1, 0, 0>>, <<0, 1>>, << >>}

DashKeys == {"baseline", "absent"}

\* the agents of _initial_agents(3), each with a "baseline" memory
InitDash ==
    /\ \E m1 \in {<<-1, 0>>, <<1, 0, 0>>}, i2 \in {<<1, 0, 0>>, <<0, 2, 0>>} :
        agents =
          <<StoreMemory(NewAgent("learning", OneHot(2, 0), InUnitOf(<<1, 0, 0>>, Zeros(0)), "learner_0"),
                        "baseline", InUnitOf(<<1, 0>>, Zeros(0))),
            StoreMemory(NewAgent("memory", OneHot(2, 1), InUnitOf(i2, Zeros(0)), "memory_1"),
                        "baseline", InUnitOf(m1, Zeros(0))),
            StoreMemory(NewAgent("collapse", OneHot(2, 0), InUnitOf(<<0, 0, 1>>, Zeros(0)), "collapser_2"),
                        "baseline", InUnitOf(<<1, 0>>, Zeros(0)))>>
    /\ active_agents = 0..(Len(agents) - 1)
    /\ last_update = 0
    /\ clock = 1
    /\ lastOp = [NoOp EXCEPT !.op = "__post_init__"]
    /\ history = << >>
    /\ evo = EvoIdle

Tick == clock <= MaxClock /\ clock' = clock + 1

OutOfRangeAfterTimestamp(op, a, b, key) ==
    /\ lastOp' = Failure(op, a, b, key, ErrRange)
    /\ last_update' = clock
    /\ UNCHANGED agents

\* return {"success": False, "error": "Agent ID out of range"}
OutOfRange(op, a, b, key) ==
    /\ lastOp' = Failure(op, a, b, key, ErrRange)
    /\ UNCHANGED <<agents, last_update>>

RejectSelfOnlyOutOfRange(a, key) ==
    IF ValidId(a) /\ IsMemoryNetwork(agents[a + 1]) /\ key \in DOMAIN agents[a + 1].memory
    THEN LET r == EntangleMemory(agents[a + 1], agents[a + 1], key, 1, 2)
         IN  /\ agents' = [agents EXCEPT ![a + 1] = r.first]
             /\ lastOp' = [Success("entangle_agents", a, a, key, {"entangled_state"})
                              EXCEPT !.vec = r.vec]
             /\ last_update' = clock
    ELSE /\ lastOp' = Failure("entangle_agents", a, a, key, ErrSelf)
         /\ UNCHANGED <<agents, last_update>>

\* if agent_a == agent_b: return {"success": False, "error": "Cannot entangle ..."}
RejectSelf(a, key) ==
    /\ lastOp' = Failure("entangle_agents", a, a, key, ErrSelf)
    /\ UNCHANGED <<agents, last_update>>

\* AgentDashboard.agent_details
AgentDetails(id) ==
    /\ Tick
    /\ lastOp' = IF ValidId(id)
                 THEN [NoOp EXCEPT !.op = "agent_details", !.a = id,
                          !.keys = {"id", "label", "state_vector", "intent", "memory_bank",
                                    "entangled", "coherence"}]
                 ELSE [NoOp EXCEPT !.op = "agent_details", !.a = id, !.err = ErrRange,
                          !.keys = {"error"}]
    /\ UNCHANGED <<agents, active_agents, last_update, history, evo>>

\* AgentDashboard.update_agent_intent
UpdateAgentIntent(id, m) ==
    /\ Tick
    /\ IF ValidId(id)
       THEN LET r == AddIntent(agents[id + 1], InUnitOf(m, agents[id + 1].intent), 1)
            IN  /\ agents' = [agents EXCEPT ![id + 1] = r.agent]
                /\ IF r.raised # ""
                   THEN /\ lastOp' = Called("update_agent_intent", id, r)
                        /\ UNCHANGED last_update
                   ELSE /\ lastOp' = Success("update_agent_intent", id, -1, "",
                                             {"old_intent", "new_intent"})
                        /\ last_update' = clock
       ELSE OutOfRange("update_agent_intent", id, -1, "")
    /\ UNCHANGED <<active_agents, history, evo>>

\* np.random.randn(*shape) + reward: every component 0 or 1 (times 1 / learning_rate)
DashGradients(a) ==
    {InUnitOf([j \in 1..Len(a.intent.n) |-> LearningRateDen * x], a.intent) : x \in {0, 1}}

\* AgentDashboard.trigger_learning
TriggerLearning(id) ==
    /\ Tick
    /\ IF ValidId(id)
       THEN IF IsLearningNetwork(agents[id + 1])
            THEN \E gradient \in DashGradients(agents[id + 1]) :
                   LET r == QuantumLearn(agents[id + 1], gradient)
                   IN  /\ agents' = [agents EXCEPT ![id + 1] = r.agent]
                       /\ IF r.raised # ""
                          THEN /\ lastOp' = Called("trigger_learning", id, r)
                               /\ UNCHANGED last_update
                          ELSE /\ lastOp' = Success("trigger_learning", id, -1, "",
                                                    {"before", "after"})
                               /\ last_update' = clock
            ELSE /\ lastOp' = Failure("trigger_learning", id, -1, "", ErrLearning)
                 /\ UNCHANGED <<agents, last_update>>
       ELSE OutOfRange("trigger_learning", id, -1, "")
    /\ UNCHANGED <<active_agents, history, evo>>

\* AgentDashboard.entangle_agents
EntangleAgents(a, b, key) ==
    /\ Tick
    /\ IF a = b
       THEN RejectSelf(a, key)
       ELSE IF ValidId(a) /\ ValidId(b)
       THEN IF IsMemoryNetwork(agents[a + 1]) /\ IsMemoryNetwork(agents[b + 1])
            THEN LET r == EntangleMemory(agents[a + 1], agents[b + 1], key, 1, 2)
                 IN  IF r.raised = "KeyError"
                     THEN /\ lastOp' = Failure("entangle_agents", a, b, key, ErrMissingKey)
                          /\ UNCHANGED <<agents, last_update>>
                     ELSE IF r.raised # ""
                     THEN /\ lastOp' = [NoOp EXCEPT !.op = "entangle_agents", !.a = a, !.b = b,
                                                     !.key = key, !.raised = r.raised]
                          /\ UNCHANGED <<agents, last_update>>
                     ELSE /\ agents' = [agents EXCEPT ![a + 1] = r.first, ![b + 1] = r.second]
                          /\ lastOp' = [Success("entangle_agents", a, b, key, {"entangled_state"})
                                           EXCEPT !.vec = r.vec]
                          /\ last_update' = clock
            ELSE /\ lastOp' = Failure("entangle_agents", a, b, key, ErrEntangle)
                 /\ UNCHANGED <<agents, last_update>>
       ELSE OutOfRange("entangle_agents", a, b, key)
    /\ UNCHANGED <<active_agents, history, evo>>

\* AgentDashboard.deactivate_agent
DeactivateAgent(id) ==
    /\ Tick
    /\ active_agents' = active_agents \ {id}
    /\ last_update' = clock
    /\ lastOp' = [NoOp EXCEPT !.op = "deactivate_agent", !.a = id]
    /\ UNCHANGED <<agents, history, evo>>

\* AgentDashboard.activate_agent
ActivateAgent(id) ==
    /\ Tick
    /\ active_agents' = active_agents \cup {id}
    /\ last_update' = clock
    /\ lastOp' = [NoOp EXCEPT !.op = "activate_agent", !.a = id]
    /\ UNCHANGED <<agents, history, evo>>

NextDash ==
    \/ \E id \in IdInputs : AgentDetails(id)
    \/ \E id \in IdInputs, m \in DashIntentInputs : UpdateAgentIntent(id, m)
    \/ \E id \in IdInputs : TriggerLearning(id)
    \/ \E a \in IdInputs, b \in IdInputs, key \in DashKeys : EntangleAgents(a, b, key)
    \/ \E id \in IdInputs : DeactivateAgent(id)
    \/ \E id \in IdInputs : ActivateAgent(id)

SpecDash == InitDash /\ [][NextDash]_vars

(***************************************************************************)
(* C3: every index in active_agents is a valid index into the agent list.  *)
(***************************************************************************)
C3_ActiveIndicesValid == \A i \in active_agents : 0 <= i /\ i < Len(agents)

(***************************************************************************)
(* C6: for an index outside 0..len(agents)-1, update_agent_intent,         *)
(* trigger_learning, entangle_agents (either index) and agent_details      *)
(* return the error 'Agent ID out of range' without raising and without    *)
(* changing an agent or last_update.                                       *)
(***************************************************************************)
IndexedOps == {"agent_details", "update_agent_intent", "trigger_learning", "entangle_agents"}

OutOfRangeCall(op) ==
    /\ op.op \in IndexedOps
    /\ \/ ~(0 <= op.a /\ op.a < Len(agents))
       \/ op.op = "entangle_agents" /\ ~(0 <= op.b /\ op.b < Len(agents))

RangeErrorNoChange ==
    /\ lastOp'.raised = "" /\ lastOp'.err = "Agent ID out of range" /\ "error" \in lastOp'.keys
    /\ agents' = agents /\ last_update' = last_update

C6_OutOfRangeError == [][OutOfRangeCall(lastOp') => RangeErrorNoChange]_vars

\* C6 as amended: entangle_agents is covered for two different indices; with two equal
\* indices out of range it returns the self-entanglement error, also without a change
C6_OutOfRangeErrorDistinct ==
    [][OutOfRangeCall(lastOp') =>
         IF lastOp'.op = "entangle_agents" /\ lastOp'.a = lastOp'.b
         THEN /\ lastOp'.raised = "" /\ lastOp'.ok = FALSE
              /\ lastOp'.err = "Cannot entangle an agent with itself"
              /\ agents' = agents /\ last_update' = last_update
         ELSE RangeErrorNoChange]_vars

\* entangle_agents with one valid and one negative index, after an earlier refresh
C6_Witness ==
    /\ lastOp.op = "entangle_agents" /\ lastOp.a = 0 /\ lastOp.b = -1
    /\ lastOp.err = "Agent ID out of range"
    /\ last_update > 0

(***************************************************************************)
(* C7: entangle_agents(i, i, key) returns a structured error for every i   *)
(* and key and leaves every agent and last_update unchanged.               *)
(***************************************************************************)
C7_SelfEntangleRejected ==
    [][(lastOp'.op = "entangle_agents" /\ lastOp'.a = lastOp'.b)
       => /\ lastOp'.raised = "" /\ lastOp'.ok = FALSE /\ {"success", "error"} \subseteq lastOp'.keys
          /\ agents' = agents /\ last_update' = last_update]_vars

\* a memory-capable agent that holds the key is entangled with itself
C7_Witness ==
    /\ lastOp.op = "entangle_agents" /\ lastOp.a = lastOp.b /\ lastOp.a \in 0..(Len(agents) - 1)
    /\ agents[lastOp.a + 1].kind \in {"memory", "learning"}
    /\ lastOp.key \in DOMAIN agents[lastOp.a + 1].memory
    /\ lastOp.ok = FALSE

(***************************************************************************)
(* C8: trigger_learning on a valid index of an agent that is no learning   *)
(* network, and entangle_agents on two valid distinct indices one of which *)
(* is no memory network, return success = false without raising and        *)
(* without changing an agent or last_update.                               *)
(***************************************************************************)
InRange(i) == 0 <= i /\ i < Len(agents)

Incapable(op) ==
    \/ /\ op.op = "trigger_learning" /\ InRange(op.a)
       /\ agents[op.a + 1].kind # "learning"
    \/ /\ op.op = "entangle_agents" /\ InRange(op.a) /\ InRange(op.b) /\ op.a # op.b
       /\ \/ agents[op.a + 1].kind \notin {"memory", "learning"}
          \/ agents[op.b + 1].kind \notin {"memory", "learning"}

C8_UnsupportedCapability ==
    [][Incapable(lastOp')
       => /\ lastOp'.raised = "" /\ lastOp'.ok = FALSE /\ {"success", "error"} \subseteq lastOp'.keys
          /\ agents' = agents /\ last_update' = last_update]_vars

\* the learner (memory-capable) is entangled with the collapse specialist under a key both hold
C8_Witness ==
    /\ lastOp.op = "entangle_agents" /\ lastOp.a = 0 /\ lastOp.b = 2
    /\ lastOp.key \in DOMAIN agents[1].memory /\ lastOp.key \in DOMAIN agents[3].memory
    /\ lastOp.ok = FALSE /\ lastOp.err = "Both agents must support entanglement"

(***************************************************************************)
(* DarwinEvolutionProtocol                                                 *)
(***************************************************************************)
\* darwin_evolution_protocol._normalize: a zero vector is returned as it is
DarwinNormalize(v) == IF SumSq(v.n) = 0 THEN v ELSE Reduce(Vec(v.n, SumSq(v.n)))

\* DarwinEvolutionProtocol.evaluate_agent, in units of 1 / (10 * Scale)
EvaluateAgent(a) == 7 * Coherence(a) + 3 * Tanh(Norm(a.intent))

\* alpha * u + (1 - alpha) * v for alpha = p/q; exact when alpha = 0 or u, v share a unit
Blend(p, u, v, q) == IF p = 0 THEN Combine(0, u, 1, v, 1) ELSE Combine(p, u, q - p, v, q)

Exact(p, u, v) == p = 0 \/ u.d = v.d

SharesMemory(a, b) == DOMAIN a.memory # {} /\ DOMAIN b.memory # {}

\* DarwinEvolutionProtocol.crossover_agents with alpha = p/q and key the choice among
\* agent_a's memory keys: the exception raised
CrossoverRaises(a, b, p, q, key) ==
    IF ~Broadcastable(a.state, b.state) \/ ~Broadcastable(a.intent, b.intent) THEN "ValueError"
    ELSE IF NormalizeRaises(Blend(p, a.state, b.state, q)) THEN "IndexError"
    ELSE IF ~SharesMemory(a, b) THEN ""
    ELSE IF key \notin DOMAIN b.memory THEN "KeyError"
    ELSE IF ~Broadcastable(a.memory[key], b.memory[key]) THEN "ValueError"
    ELSE ""

\* DarwinEvolutionProtocol.crossover_agents: the offspring
CrossoverAgents(a, b, p, q, key) ==
    [NewAgent("learning", DarwinNormalize(Blend(p, a.state, b.state, q)),
              DarwinNormalize(Blend(p, a.intent, b.intent, q)), "offspring")
     EXCEPT !.memory = IF SharesMemory(a, b)
                       THEN Put(EmptyMap, key,
                                DarwinNormalize(Blend(p, a.memory[key], b.memory[key], q)))
                       ELSE EmptyMap]

\* DarwinEvolutionProtocol.mutate_agent; jstate and jintent are what _jitter_state and
\* _jitter_vector return for the Gaussian noise drawn
MutateAgent(agent, jstate, jintent) ==
    [NewAgent("learning", jstate, jintent, agent.label) EXCEPT !.memory = agent.memory]

\* unit vectors the jitter of a vector of length k can give
JitterStates(k) == {OneHot(k, 0), Vec([i \in 1..k |-> <<1, 0>>], k)}

JitterIntents(k) == {OneHot(k, 0)}

Alphas == {<<0, 1>>, <<1, 2>>}

\* one pass of the while loop: parents survivors[ia], survivors[ib], crossover, mutation
ChildOutcomes(survivors) ==
    UNION {
      LET a == survivors[ia]
          b == survivors[ib]
      IN  { IF CrossoverRaises(a, b, al[1], al[2], key) # ""
            THEN [raised |-> CrossoverRaises(a, b, al[1], al[2], key), agent |-> a]
            ELSE [raised |-> "",
                  agent |-> MutateAgent(CrossoverAgents(a, b, al[1], al[2], key), js, ji)] :
              al \in {x \in Alphas :
                        /\ Exact(x[1], a.state, b.state) /\ Exact(x[1], a.intent, b.intent)
                        /\ \A k \in DOMAIN a.memory \cap DOMAIN b.memory :
                              Exact(x[1], a.memory[k], b.memory[k])},
              key \in IF SharesMemory(a, b) THEN DOMAIN a.memory ELSE {""},
              js \in IF Broadcastable(a.state, b.state)
                     THEN JitterStates(BLen(a.state, b.state)) ELSE {NoVec},
              ji \in IF Broadcastable(a.intent, b.intent)
                     THEN JitterIntents(BLen(a.intent, b.intent)) ELSE {NoVec} }
      : ia \in 1..Len(survivors), ib \in 1..Len(survivors) }

OrdersAscending(fitness) ==
    {o \in [1..Len(fitness) -> 1..Len(fitness)] :
        /\ \A i, j \in 1..Len(fitness) : i # j => o[i] # o[j]
        /\ \A i, j \in 1..Len(fitness) : i < j => fitness[o[i]] <= fitness[o[j]]}

\* np.argsort(fitness)[::-1]: the indices by descending fitness, ties in any order
Orders(fitness) ==
    {o \in [1..Len(fitness) -> 1..Len(fitness)] :
        /\ \A i, j \in 1..Len(fitness) : i # j => o[i] # o[j]
        /\ \A i, j \in 1..Len(fitness) : i < j => fitness[o[i]] >= fitness[o[j]]}

\* max(2, int(len(agents) * 0.6)), and the length of the slice order[:that]
SurvivorCount(n) == Min(n, Max(2, (n * 6) \div 10))

RECURSIVE SeqSum(_)
SeqSum(q) == IF q = << >> THEN 0 ELSE Head(q) + SeqSum(Tail(q))

RECURSIVE SeqMax(_)
SeqMax(q) == IF Len(q) = 1 THEN q[1] ELSE Max(Head(q), SeqMax(Tail(q)))

Fitness(pop) == [i \in 1..Len(pop) |-> EvaluateAgent(pop[i])]

\* int(np.argmax(values)): the first index of the largest value (0-based)
ArgMax(q) == (CHOOSE i \in 1..Len(q) : q[i] = SeqMax(q) /\ \A j \in 1..(i - 1) : q[j] # SeqMax(q)) - 1

EvolutionEventBeforeRefill(generation, pop, fitness) ==
    [generation |-> generation,
     population_size |-> SurvivorCount(Len(pop)),
     mean_coherence |-> SeqSum([i \in 1..Len(pop) |-> Coherence(pop[i])]) \div Len(pop),
     best_fitness |-> SeqMax(fitness)]

\* EvolutionEvent(generation, len(agents), mean coherence of agents, max(fitness))
EvolutionEvent(generation, pop, fitness) ==
    [generation |-> generation,
     population_size |-> Len(pop),
     mean_coherence |-> SeqSum([i \in 1..Len(pop) |-> Coherence(pop[i])]) \div Len(pop),
     best_fitness |-> SeqMax(fitness)]

(***************************************************************************)
(* SpecEvo: runs of recursive_consciousness_evolution on the agent list,   *)
(* as QuantumEnvironment.run_evolution starts them.  evo holds the run:    *)
(* pc, the local list agents (pop), depth, the loop variable (gen), the    *)
(* length of the history when the run began (base), the number of the run, *)
(* the index returned (best) and the exception raised.                     *)
(***************************************************************************)
MaxPop == 3        \* largest population

Mem(m) == InUnitOf(m, Zeros(0))

\* agents of different kinds, fitness and memory keys
Roster ==
    <<StoreMemory(NewAgent("learning", OneHot(2, 0), Mem(<<1, 0, 0>>), "learner_0"),
                  "baseline", Mem(<<1, 0>>)),
      StoreMemory(NewAgent("memory", Vec(<< <<3, 0>>, <<4, 0>> >>, 1), Mem(<<2, 0, 0>>), "memory_1"),
                  "baseline", Mem(<<0, 1>>)),
      StoreMemory(StoreMemory(NewAgent("collapse", Vec(<< <<1, 0>>, <<1, 0>> >>, 1), DefaultIntent,
                                       "collapser_2"),
                              "baseline", Mem(<<1, 0>>)), "collapse_1", Mem(<<0, 1>>)),
      NewAgent("learning", OneHot(2, 1), Mem(<<0, 1, 0>>), "learner_3"),
      StoreMemory(NewAgent("memory", OneHot(2, 1), Mem(<<0, 0, 1>>), "memory_4"),
                  "pattern", Mem(<<1, 1>>))>>

\* the population of size n that starts at position off of the roster
Population(off, n) == [i \in 1..n |-> Roster[((off + i - 2) % Len(Roster)) + 1]]

InitEvo ==
    /\ \E n \in 0..MaxPop, off \in 1..Len(Roster) : agents = Population(off, n)
    /\ lastOp = NoOp
    /\ active_agents = 0..(Len(agents) - 1)
    /\ last_update = 0
    /\ clock = 1
    /\ history = << >>
    /\ evo = EvoIdle

\* QuantumEnvironment.run_evolution called at time clock: agents = list(population)
EvoStart(depth) ==
    /\ evo.pc = "idle"
    /\ evo' = [EvoIdle EXCEPT !.pc = "running", !.pop = agents, !.depth = depth,
                              !.base = Len(history), !.run = evo.run + 1]
    /\ clock' = clock + 1
    /\ UNCHANGED <<agents, active_agents, last_update, lastOp, history>>

\* run_evolution left by an exception
RunRaised(raised) == [NoOp EXCEPT !.op = "run_evolution", !.raised = raised]

\* run_evolution returning {"best_agent": ..., "history": ...}
RunReturned == [NoOp EXCEPT !.op = "run_evolution", !.keys = {"best_agent", "history"}]

\* one pass of the loop over range(depth); on an empty list np.max(fitness) raises
EvoGeneration ==
    /\ evo.pc = "running" /\ evo.gen < evo.depth
    /\ IF evo.pop = << >>
       THEN /\ evo' = [evo EXCEPT !.pc = "raised", !.raised = "ValueError"]
            /\ lastOp' = RunRaised("ValueError")
            /\ UNCHANGED history
       ELSE LET fitness == Fitness(evo.pop)
                count == SurvivorCount(Len(evo.pop))
                need == Len(evo.pop) - count
            IN  \E order \in Orders(fitness) :
                  LET survivors == [i \in 1..count |-> evo.pop[order[i]]]
                      outcomes == ChildOutcomes(survivors)
                  IN  \/ \E children \in [1..need -> {c.agent : c \in {x \in outcomes : x.raised = ""}}] :
                            /\ evo' = [evo EXCEPT !.pop = survivors \o children, !.gen = evo.gen + 1]
                            /\ history' = Append(history,
                                   EvolutionEvent(evo.gen, survivors \o children, fitness))
                            /\ UNCHANGED lastOp
                      \/ /\ need > 0
                         /\ \E c \in outcomes :
                               /\ c.raised # ""
                               /\ evo' = [evo EXCEPT !.pc = "raised", !.raised = c.raised]
                               /\ lastOp' = RunRaised(c.raised)
                         /\ UNCHANGED history
    /\ UNCHANGED <<agents, active_agents, last_update, clock>>

\* best_index = int(np.argmax([...])); return agents[best_index]; np.argmax of an empty
\* list raises; run_evolution then returns its dict
EvoReturn ==
    /\ evo.pc = "running" /\ evo.gen = evo.depth
    /\ IF evo.pop = << >>
       THEN /\ evo' = [evo EXCEPT !.pc = "raised", !.raised = "ValueError"]
            /\ lastOp' = RunRaised("ValueError")
       ELSE /\ evo' = [evo EXCEPT !.pc = "returned", !.best = ArgMax(Fitness(evo.pop))]
            /\ lastOp' = RunReturned
    /\ UNCHANGED <<agents, active_agents, last_update, clock, history>>

NextEvo ==
    \/ \E depth \in 0..MaxDepth : EvoStart(depth)
    \/ EvoGeneration
    \/ EvoReturn

SpecEvo == InitEvo /\ [][NextEvo]_vars

(***************************************************************************)
(* C9: the agent a run returns has fitness >= the largest fitness of the   *)
(* population the run was given.                                           *)
(***************************************************************************)
C9_BestNeverLost ==
    evo.pc = "returned"
        => EvaluateAgent(evo.pop[evo.best + 1]) >= SeqMax(Fitness(agents))

\* a run of two generations returned, and its population holds a child
C9_Witness ==
    /\ evo.pc = "returned" /\ evo.depth = 2
    /\ \E i \in 1..Len(evo.pop) : evo.pop[i].label = "offspring"
    /\ \E i \in 1..Len(agents) : EvaluateAgent(agents[i]) < SeqMax(Fitness(agents))

(***************************************************************************)
(* C10: a run with depth d on two or more agents appends one event per     *)
(* generation, with the generation indices 0..d-1 in order, so that when   *)
(* the first run on a protocol is over the history has exactly d entries;  *)
(* entries in the history are never modified or removed.                   *)
(***************************************************************************)
C10_HistoryLength ==
    /\ (evo.pc \in {"returned", "raised"} /\ evo.run = 1 /\ Len(agents) >= 2)
       => Len(history) = evo.depth
    /\ evo.pc # "idle" =>
          /\ Len(history) = evo.base + evo.gen
          /\ \A g \in 0..(evo.gen - 1) : history[evo.base + g + 1].generation = g

(***************************************************************************)
(* C11: for a population of N >= 2 agents, at the end of every generation  *)
(* the population (survivors + children) has exactly N agents and the      *)
(* event recorded has population_size = N.                                 *)
(***************************************************************************)
C11_PopulationSizePreserved ==
    (evo.pc # "idle" /\ Len(agents) >= 2) =>
        /\ Len(evo.pop) = Len(agents)
        /\ \A g \in 1..Len(history) : history[g].population_size = Len(agents)

\* a generation over three agents has ended: two survivors and one child
C11_Witness ==
    /\ evo.pc = "running" /\ evo.gen >= 1 /\ Len(agents) = 3
    /\ Len(history) >= 1
    /\ evo.pop[3].label = "offspring"

(***************************************************************************)
(* C12: a run on a population of 0 or 1 agents fails with                  *)
(* InsufficientPopulation before the first generation: no generation is    *)
(* evaluated, no event is appended and no agent is returned.               *)
(***************************************************************************)
C12_SmallPopulationFailsFast ==
    (Len(agents) < 2 /\ evo.pc # "idle") =>
        /\ evo.pc # "returned"
        /\ evo.gen = 0 /\ history = << >>
        /\ evo.pc = "raised" => evo.raised = "InsufficientPopulation"

(***************************************************************************)
(* C13: update_agent_intent, trigger_learning and entangle_agents return a *)
(* structured success/error result and never raise, whatever the index,    *)
(* the key and the input vector.                                           *)
(***************************************************************************)
C13_NeverAborts ==
    lastOp.op \in {"update_agent_intent", "trigger_learning", "entangle_agents"}
        => lastOp.raised = "" /\ "success" \in lastOp.keys

(***************************************************************************)
(* C14: apply_unitary with a matrix that is not n x n for a state of       *)
(* length n fails and leaves the state unchanged, so that the length of an *)
(* agent's state never changes after construction.                         *)
(***************************************************************************)
C14_DimensionMismatch ==
    [][/\ \A i \in 1..Len(agents) : Len(agents'[i].state.n) = Len(agents[i].state.n)
       /\ (/\ lastOp'.op = "apply_unitary"
           /\ lastOp'.arg # <<Len(agents[lastOp'.a + 1].state.n),
                              Len(agents[lastOp'.a + 1].state.n)>>)
          => lastOp'.raised # "" /\ agents' = agents]_vars

(***************************************************************************)
(* C15: measure() without a basis returns an index whose probability       *)
(* |amplitude|^2 before the call is non-zero, and afterwards the state is  *)
(* the one-hot basis vector at that index.                                 *)
(***************************************************************************)
C15_MeasureCollapses ==
    [][lastOp'.op = "measure"
       => LET before == agents[lastOp'.a + 1].state
              o == lastOp'.out
          IN  /\ lastOp'.raised = ""
              /\ o \in 0..(Len(before.n) - 1)
              /\ AbsSq(before.n[o + 1]) > 0
              /\ agents'[lastOp'.a + 1].state = OneHot(Len(before.n), o)]_vars

\* a measurement of a two-level state returned index 1
C15_Witness ==
    /\ lastOp.op = "measure" /\ lastOp.raised = "" /\ lastOp.out = 1
    /\ agents[1].state = OneHot(2, 1)

(***************************************************************************)
(* C16: every mutating wrapper (intent update, learning trigger,           *)
(* entanglement trigger, evolution run) that succeeds sets last_update to  *)
(* the time of that call.  The clock is one past the time of the last      *)
(* call.                                                                   *)
(***************************************************************************)
C16_LastUpdateRefreshed ==
    /\ (/\ lastOp.op \in {"update_agent_intent", "trigger_learning", "entangle_agents"}
        /\ lastOp.raised = "" /\ lastOp.ok)
       => last_update = clock - 1
    /\ (lastOp.op = "run_evolution" /\ lastOp.raised = "") => last_update = clock - 1

(***************************************************************************)
(* C17: every wrapper (intent update, learning trigger, entanglement       *)
(* trigger, evolution run, single-agent detail) that returns, returns a    *)
(* result with a success field and a message (on success) or an error (on  *)
(* failure).                                                               *)
(***************************************************************************)
C17_UniformResult ==
    (/\ lastOp.op \in {"update_agent_intent", "trigger_learning", "entangle_agents",
                       "run_evolution", "agent_details"}
     /\ lastOp.raised = "")
    => /\ "success" \in lastOp.keys
       /\ IF lastOp.ok /\ lastOp.err = "" THEN "message" \in lastOp.keys
          ELSE "error" \in lastOp.keys

(***************************************************************************)
(* C18: add_intent whose sum intent + weight * delta is exactly the zero   *)
(* vector does not raise, and stores and returns the all-zero vector.      *)
(***************************************************************************)
C18_ZeroSumStoresZero ==
    [][(lastOp'.op = "add_intent" /\ lastOp'.zero)
       => /\ lastOp'.raised = ""
          /\ IsZeroVec(agents'[lastOp'.a + 1].intent)
          /\ lastOp'.vec = agents'[lastOp'.a + 1].intent]_vars

(***************************************************************************)
(* SpecCross: crossover_agents and mutate_agent called on agents of the    *)
(* population, next to the runs of SpecEvo.  evo.pop holds the agent the   *)
(* call returned.  Arrays are mutable: after mutate_agent the caller may   *)
(* write into an array of the clone's memory, and the write reaches the    *)
(* source agent when the two share the array.                              *)
(***************************************************************************)
CloneSharesAll(agent) == DOMAIN agent.memory

\* the keys under which the clone's memory holds the very array of the source:
\* none, clone.memory = {k: v.copy() ...}
CloneShares(agent) == {}

\* crossover_agents(agents[i], agents[j]) with alpha = al[1] / al[2] and the key chosen
DoCrossover(i, j, al, key) ==
    LET a == agents[i + 1]
        b == agents[j + 1]
        raised == CrossoverRaises(a, b, al[1], al[2], key)
    IN  /\ evo.pc = "idle"
        /\ Exact(al[1], a.state, b.state) /\ Exact(al[1], a.intent, b.intent)
        /\ \A k \in DOMAIN a.memory \cap DOMAIN b.memory : Exact(al[1], a.memory[k], b.memory[k])
        /\ key \in IF SharesMemory(a, b) THEN DOMAIN a.memory ELSE {""}
        /\ evo' = IF raised # "" THEN [EvoIdle EXCEPT !.pc = "raised", !.raised = raised]
                  ELSE [EvoIdle EXCEPT !.pc = "crossed",
                                       !.pop = <<CrossoverAgents(a, b, al[1], al[2], key)>>]
        /\ lastOp' = [NoOp EXCEPT !.op = "crossover_agents", !.a = i, !.b = j, !.key = key,
                                  !.raised = raised, !.arg = al]
        /\ UNCHANGED <<agents, active_agents, last_update, clock, history>>

\* mutate_agent(agents[i])
DoMutate(i) ==
    LET source == agents[i + 1]
    IN  /\ evo.pc = "idle"
        /\ \E js \in JitterStates(Len(source.state.n)), ji \in JitterIntents(Len(source.intent.n)) :
              evo' = [EvoIdle EXCEPT !.pc = "mutated", !.pop = <<MutateAgent(source, js, ji)>>]
        /\ lastOp' = [NoOp EXCEPT !.op = "mutate_agent", !.a = i, !.keys = CloneShares(source)]
        /\ UNCHANGED <<agents, active_agents, last_update, clock, history>>

\* the caller zeroes clone.memory[key] in place
DoWriteClone(key) ==
    /\ evo.pc = "mutated"
    /\ key \in DOMAIN evo.pop[1].memory
    /\ LET zero == Zeros(Len(evo.pop[1].memory[key].n))
       IN  /\ evo' = [evo EXCEPT !.pc = "written", !.pop[1].memory[key] = zero]
           /\ agents' = IF key \in lastOp.keys
                        THEN [agents EXCEPT ![lastOp.a + 1].memory[key] = zero]
                        ELSE agents
    /\ lastOp' = [lastOp EXCEPT !.op = "write_clone", !.key = key]
    /\ UNCHANGED <<active_agents, last_update, clock, history>>

NextCross ==
    \/ \E i \in AgentIds, j \in AgentIds, al \in Alphas, key \in {"", "baseline", "collapse_1", "pattern"} :
          DoCrossover(i, j, al, key)
    \/ \E i \in AgentIds : DoMutate(i)
    \/ \E key \in {"baseline", "collapse_1", "pattern"} : DoWriteClone(key)
    \/ NextEvo

SpecCross == InitEvo /\ [][NextCross]_vars

(***************************************************************************)
(* C19: crossover_agents succeeds for every pair of agents; when the two   *)
(* share a memory key the offspring's memory holds exactly one key, one    *)
(* that both parents hold; when they share none it is empty.               *)
(***************************************************************************)
C19_CrossoverSharedKey ==
    lastOp.op = "crossover_agents"
    => /\ lastOp.raised = ""
       /\ LET shared == DOMAIN agents[lastOp.a + 1].memory \cap DOMAIN agents[lastOp.b + 1].memory
              child == evo.pop[1]
          IN  IF shared # {}
              THEN Cardinality(DOMAIN child.memory) = 1 /\ DOMAIN child.memory \subseteq shared
              ELSE child.memory = EmptyMap

(***************************************************************************)
(* C20: crossover_agents, mutate_agent and evolution runs leave every      *)
(* input agent and the population list unchanged; a mutated clone's memory *)
(* equals its source's memory and shares no array with it, so that a write *)
(* into the clone's memory leaves the source unchanged.                    *)
(***************************************************************************)
C20_InputsUntouched ==
    [][/\ agents' = agents
       /\ lastOp'.op = "mutate_agent"
          => /\ evo'.pop[1].memory = agents[lastOp'.a + 1].memory
             /\ evo'.pop[1].memory_entangled = EmptyMap]_vars

\* a memory array of a clone was overwritten and the source still holds its value
C20_Witness ==
    /\ evo.pc = "written" /\ lastOp.op = "write_clone"
    /\ lastOp.key \in DOMAIN agents[lastOp.a + 1].memory
    /\ IsZeroVec(evo.pop[1].memory[lastOp.key])
    /\ ~IsZeroVec(agents[lastOp.a + 1].memory[lastOp.key])

(***************************************************************************)
(* SpecMap: one agent, its memory under store_memory, retrieve_memory and  *)
(* forget_memory with two keys.  For store_memory lastOp.vec is the value  *)
(* given; for retrieve_memory lastOp.ok tells a value from None.           *)
(***************************************************************************)
RetrieveMemoryRaisesOnAbsent(a, key) ==
    IF key \in DOMAIN a.memory THEN [raised |-> "", found |-> TRUE, vec |-> a.memory[key]]
    ELSE [raised |-> "KeyError", found |-> FALSE, vec |-> NoVec]

\* ConsciousnessAxiom.retrieve_memory: self.memory.get(key)
RetrieveMemory(a, key) ==
    IF key \in DOMAIN a.memory THEN [raised |-> "", found |-> TRUE, vec |-> a.memory[key]]
    ELSE [raised |-> "", found |-> FALSE, vec |-> NoVec]

MapKeys == {"baseline", "pattern"}

InitMap ==
    /\ \E kind \in {"base", "memory"} :
          agents = <<EntangleWrite(NewAgent(kind, OneHot(2, 0), DefaultIntent, "agent"),
                                   "baseline", OneHot(2, 0))>>
    /\ lastOp = [NoOp EXCEPT !.op = "__post_init__", !.a = 0]
    /\ InitRest

DoRetrieveMemory(i, key) ==
    LET r == RetrieveMemory(agents[i + 1], key)
    IN  /\ lastOp' = [NoOp EXCEPT !.op = "retrieve_memory", !.a = i, !.key = key,
                                  !.raised = r.raised, !.ok = r.found, !.vec = r.vec]
        /\ UNCHANGED <<agents, active_agents, last_update, clock, history, evo>>

NextMap ==
    \/ \E i \in AgentIds, key \in MapKeys, value \in MemValues : DoStoreMemory(i, key, value)
    \/ \E i \in AgentIds, key \in MapKeys : DoRetrieveMemory(i, key)
    \/ \E i \in AgentIds, key \in MapKeys : DoForgetMemory(i, key)

SpecMap == InitMap /\ [][NextMap]_vars

(***************************************************************************)
(* C21: retrieve_memory(k) after store_memory(k, v) returns v;             *)
(* retrieve_memory on an absent key returns None without raising;          *)
(* forget_memory on an absent key changes nothing; none of the three       *)
(* changes state, intent, memory_entangled or the entry of another key.    *)
(***************************************************************************)
C21_MemoryMapLaws ==
    [][/\ lastOp'.op \in {"store_memory", "retrieve_memory", "forget_memory"}
          => LET before == agents[lastOp'.a + 1]
                 after == agents'[lastOp'.a + 1]
                 k == lastOp'.key
             IN  /\ lastOp'.raised = ""
                 /\ after.state = before.state /\ after.intent = before.intent
                 /\ after.memory_entangled = before.memory_entangled
                 /\ DOMAIN after.memory \ {k} = DOMAIN before.memory \ {k}
                 /\ \A other \in DOMAIN before.memory \ {k} :
                        after.memory[other] = before.memory[other]
                 /\ lastOp'.op = "store_memory"
                    => k \in DOMAIN after.memory /\ after.memory[k] = lastOp'.vec
                 /\ lastOp'.op = "retrieve_memory"
                    => /\ after = before
                       /\ IF k \in DOMAIN before.memory
                          THEN lastOp'.ok /\ lastOp'.vec = before.memory[k]
                          ELSE ~lastOp'.ok
                 /\ lastOp'.op = "forget_memory"
                    => /\ k \notin DOMAIN after.memory
                       /\ k \notin DOMAIN before.memory => after = before
       /\ (/\ lastOp.op = "store_memory" /\ lastOp'.op = "retrieve_memory"
           /\ lastOp'.a = lastOp.a /\ lastOp'.key = lastOp.key)
          => lastOp'.ok /\ lastOp'.vec = lastOp.vec]_vars

\* an absent key is retrieved while another key is stored and one is entangled
C21_Witness ==
    /\ lastOp.op = "retrieve_memory" /\ lastOp.raised = "" /\ ~lastOp.ok
    /\ lastOp.key = "pattern" /\ "baseline" \in DOMAIN agents[1].memory
    /\ agents[1].memory_entangled # EmptyMap

(***************************************************************************)
(* C22: coherence() lies in (0, 1] for every normalized state and is       *)
(* exactly 1 for a one-hot state.  The value is                            *)
(* Coherence / Scale * exp(CoherenceTiny * 1e-12).                         *)
(***************************************************************************)
C22_CoherenceRange ==
    \A i \in 1..Len(agents) :
        LET a == agents[i]
        IN  /\ Coherence(a) > 0
            /\ \/ Coherence(a) < Scale
               \/ Coherence(a) = Scale /\ CoherenceTiny(a) = 0
            /\ (\E o \in 0..(Len(a.state.n) - 1) : a.state = OneHot(Len(a.state.n), o))
               => Coherence(a) = Scale /\ CoherenceTiny(a) = 0

\* ---------------------------------------------------------------------------
\* The HTTP API: one module-level environment, every endpoint a coroutine
\* that calls the environment and never awaits, so the event loop runs each
\* request to its end before it starts the next one.  entangle_memory is two
\* assignments, self.memory_entangled[key] and other.memory_entangled[key];
\* the state between them is lastOp.pc = "first_written".
\* ---------------------------------------------------------------------------
LoopFreeAlways == TRUE

\* the event loop starts a request only when the running coroutine has returned
LoopFree == lastOp.pc = "done"

\* overview: sum(1 for agent in self.agents if agent.memory_entangled)
QuantumEntangled ==
    Cardinality({i \in 1..Len(agents) : DOMAIN agents[i].memory_entangled # {}})

\* GET /api/status
ApiStatus ==
    /\ LoopFree
    /\ Tick
    /\ lastOp' = [NoOp EXCEPT !.op = "status", !.out = QuantumEntangled,
                              !.keys = {"overview", "navigation"}]
    /\ UNCHANGED <<agents, active_agents, last_update, history, evo>>

\* GET /api/agents/{agent_id}
ApiAgentDetails(id) == LoopFree /\ AgentDetails(id)

\* POST /api/agents/{agent_id}/intent
ApiUpdateIntent(id, m) == LoopFree /\ UpdateAgentIntent(id, m)

\* POST /api/agents/{agent_id}/learn
ApiTriggerLearning(id) == LoopFree /\ TriggerLearning(id)

\* entangle_agents reaches entangle_memory and entangle_memory reaches its writes
EntangleWrites(a, b, key) ==
    /\ a # b /\ ValidId(a) /\ ValidId(b)
    /\ IsMemoryNetwork(agents[a + 1]) /\ IsMemoryNetwork(agents[b + 1])
    /\ EntangleMemory(agents[a + 1], agents[b + 1], key, 1, 2).raised = ""

\* POST /api/agents/{agent_a}/entangle/{agent_b}, up to and including
\* self.memory_entangled[key] = combined
ApiEntangleAgents(a, b, key) ==
    /\ LoopFree
    /\ IF EntangleWrites(a, b, key)
       THEN LET r == EntangleMemory(agents[a + 1], agents[b + 1], key, 1, 2)
            IN  /\ Tick
                /\ agents' = [agents EXCEPT ![a + 1] = r.first]
                /\ lastOp' = [NoOp EXCEPT !.op = "entangle_agents", !.a = a, !.b = b,
                                          !.key = key, !.vec = r.vec, !.pc = "first_written"]
                /\ UNCHANGED <<active_agents, last_update, history, evo>>
       ELSE EntangleAgents(a, b, key)

\* other.memory_entangled[key] = combined, and the rest of entangle_agents
ApiEntangleSecondWrite ==
    /\ lastOp.pc = "first_written"
    /\ agents' = [agents EXCEPT ![lastOp.b + 1] =
                     EntangleWrite(agents[lastOp.b + 1], lastOp.key, lastOp.vec)]
    /\ lastOp' = [Success("entangle_agents", lastOp.a, lastOp.b, lastOp.key, {"entangled_state"})
                     EXCEPT !.vec = lastOp.vec]
    /\ last_update' = clock - 1
    /\ UNCHANGED <<active_agents, clock, history, evo>>

NextApi ==
    \/ ApiStatus
    \/ \E id \in IdInputs : ApiAgentDetails(id)
    \/ \E id \in IdInputs, m \in DashIntentInputs : ApiUpdateIntent(id, m)
    \/ \E id \in IdInputs : ApiTriggerLearning(id)
    \/ \E a \in IdInputs, b \in IdInputs, key \in DashKeys : ApiEntangleAgents(a, b, key)
    \/ ApiEntangleSecondWrite

SpecApi == InitDash /\ [][NextApi]_vars

HoldsEntangled(key) == {i \in 1..Len(agents) : key \in DOMAIN agents[i].memory_entangled}

HalfEntangled == \E key \in DashKeys : Cardinality(HoldsEntangled(key)) = 1

\* C23: between the two writes of an entanglement no other request runs (the
\* only step that can follow the first write is the second write of the same
\* call, after which both agents hold the same combined vector under the key),
\* and no other request (status, agent details, intent update, learning) ever
\* runs in a state where a key is entangled on exactly one agent.
C23_EntangleExclusive ==
    [][/\ lastOp.pc = "first_written" =>
            /\ lastOp'.op = "entangle_agents" /\ lastOp'.pc = "done"
            /\ lastOp'.a = lastOp.a /\ lastOp'.b = lastOp.b /\ lastOp'.key = lastOp.key
            /\ agents'[lastOp.a + 1].memory_entangled[lastOp.key] = lastOp.vec
            /\ agents'[lastOp.b + 1].memory_entangled[lastOp.key] = lastOp.vec
       /\ lastOp'.op \in {"status", "agent_details", "update_agent_intent", "trigger_learning"}
            => ~HalfEntangled'
      ]_vars

\* a status request has run after an entanglement was written
C23_Witness ==
    /\ lastOp.op = "status"
    /\ lastOp.out = 2
    /\ \E key \in DashKeys : Cardinality(HoldsEntangled(key)) = 2

\* ---------------------------------------------------------------------------
\* universal-collapse-scanner: DeltaCalculator.get_status.  A delta is the
\* fraction d / DeltaUnits; the thresholds are the class attributes in the
\* same unit.
\* ---------------------------------------------------------------------------
MaxDelta == 120

DeltaUnits == 100

STABLE == 35

MODERATE == 65

CRITICAL == 85

CATASTROPHIC == 85

DeltaInputs == (0 - MaxDelta)..MaxDelta

GetStatusInclusive(delta) ==
    IF delta <= STABLE THEN "STABLE"
    ELSE IF delta <= MODERATE THEN "MODERATE_RISK"
    ELSE IF delta <= CRITICAL THEN "CRITICAL"
    ELSE "CATASTROPHIC"

GetStatus(delta) ==
    IF delta < STABLE THEN "STABLE"
    ELSE IF delta < MODERATE THEN "MODERATE_RISK"
    ELSE IF delta < CRITICAL THEN "CRITICAL"
    ELSE "CATASTROPHIC"

InitDelta ==
    /\ agents = << >>
    /\ active_agents = {}
    /\ last_update = 0
    /\ clock = 1
    /\ lastOp = NoOp
    /\ history = << >>
    /\ evo = EvoIdle

\* DeltaCalculator.get_status(delta): reads the thresholds, changes nothing
DoGetStatus(delta) ==
    /\ lastOp' = [NoOp EXCEPT !.op = "get_status", !.arg = <<delta, DeltaUnits>>,
                              !.key = GetStatus(delta)]
    /\ UNCHANGED <<agents, active_agents, last_update, clock, history, evo>>

NextDelta == \E delta \in DeltaInputs : DoGetStatus(delta)

SpecDelta == InitDelta /\ [][NextDelta]_vars

StatusLabels == <<"STABLE", "MODERATE_RISK", "CRITICAL", "CATASTROPHIC">>

StatusRank(label) == CHOOSE r \in 1..Len(StatusLabels) : StatusLabels[r] = label

\* C24: get_status gives every delta one of the four labels by the fixed
\* thresholds (below 0.35 STABLE, from 0.35 and below 0.65 MODERATE_RISK, from
\* 0.65 and below 0.85 CRITICAL, from 0.85 CATASTROPHIC), a larger delta never
\* gets a lower label, and each of the four labels is the label of some delta.
C24_StatusThresholds ==
    lastOp.op = "get_status" =>
        LET d == lastOp.arg[1]
        IN  /\ lastOp.arg[2] = 100
            /\ \E r \in 1..Len(StatusLabels) : lastOp.key = StatusLabels[r]
            /\ (d < 35) <=> (lastOp.key = "STABLE")
            /\ (35 <= d /\ d < 65) <=> (lastOp.key = "MODERATE_RISK")
            /\ (65 <= d /\ d < 85) <=> (lastOp.key = "CRITICAL")
            /\ (d >= 85) <=> (lastOp.key = "CATASTROPHIC")
            /\ \A e \in DeltaInputs :
                 e >= d => StatusRank(GetStatus(e)) >= StatusRank(lastOp.key)
            /\ \A r \in 1..Len(StatusLabels) :
                 \E e \in DeltaInputs : GetStatus(e) = StatusLabels[r]

\* get_status(0.85): the delta on the last threshold is CATASTROPHIC
C24_Witness ==
    /\ lastOp.op = "get_status"
    /\ lastOp.arg = <<85, 100>>
    /\ lastOp.key = "CATASTROPHIC"

\* the agents of pop at the positions sel, in that order
Selected(pop, sel) == [i \in 1..Len(sel) |-> pop[sel[i]]]

\* sel picks k different agents of a population with the given fitness, and no
\* agent left out has a strictly higher fitness than an agent picked
PicksFittest(sel, k, fitness) ==
    /\ Len(sel) = k
    /\ \A i, j \in 1..k : i # j => sel[i] # sel[j]
    /\ \A i \in 1..k : \A j \in 1..Len(fitness) :
          (\A h \in 1..k : sel[h] # j) => fitness[j] <= fitness[sel[i]]

\* C25: in every generation over a population of N agents the survivors are
\* exactly the max(2, floor(0.6 * N)) agents of highest fitness (no agent left
\* out has a strictly higher fitness than a survivor) and they open the next
\* generation's population as the same, unmodified agents.
C25_SurvivorSelection ==
    [][(evo.pc = "running" /\ evo'.gen = evo.gen + 1) =>
          LET n == Len(evo.pop)
              k == Max(2, (6 * n) \div 10)
          IN  /\ Len(evo'.pop) >= k
              /\ \E sel \in [1..k -> 1..n] :
                    /\ PicksFittest(sel, k, Fitness(evo.pop))
                    /\ SubSeq(evo'.pop, 1, k) = Selected(evo.pop, sel)
              /\ \A i \in (k + 1)..Len(evo'.pop) : evo'.pop[i].label = "offspring"
      ]_vars

\* C26: the event appended for a generation summarizes the population as it
\* was before survivors were selected and children were added: its
\* population_size, its mean_coherence and its best_fitness are those of the
\* population the generation started from.
C26_EventOfPreSelection ==
    [][(evo.pc = "running" /\ evo'.gen = evo.gen + 1) =>
          /\ Len(history') = Len(history) + 1
          /\ LET event == history'[Len(history')]
                 before == evo.pop
             IN  /\ event.generation = evo.gen
                 /\ event.population_size = Len(before)
                 /\ event.mean_coherence =
                       SeqSum([i \in 1..Len(before) |-> Coherence(before[i])]) \div Len(before)
                 /\ event.best_fitness = SeqMax(Fitness(before))
      ]_vars

TraceKeys == {"note", "collapse_0", "collapse_1"}

InitTrace ==
    /\ \E s \in {<< <<1, 0>>, <<0, 0>> >>, << <<1, 0>>, <<1, 0>> >>} :
          agents = <<NewAgent("collapse", Vec(s, 1), DefaultIntent, "collapser_0")>>
    /\ lastOp = [NoOp EXCEPT !.op = "__post_init__", !.a = 0]
    /\ InitRest

\* RealityCollapseAxiom.measure() in the computational basis, for as long as
\* the memory holds at most MaxTraces entries
DoMeasureTraced(i) ==
    /\ Cardinality(DOMAIN agents[i + 1].memory) <= MaxTraces
    /\ \E o \in Outcomes([j \in 1..Len(agents[i + 1].state.n) |-> AbsSq(agents[i + 1].state.n[j])]) :
          LET r == Measure(agents[i + 1], o)
          IN  /\ agents' = [agents EXCEPT ![i + 1] = r.agent]
              /\ lastOp' = Called("measure", i, r)
    /\ UNCHANGED <<active_agents, last_update, clock, history, evo>>

NextTrace ==
    \/ \E i \in AgentIds, key \in TraceKeys : DoStoreMemory(i, key, Mem(<<1, 0>>))
    \/ \E i \in AgentIds, key \in TraceKeys : DoForgetMemory(i, key)
    \/ \E i \in AgentIds : DoMeasureTraced(i)

SpecTrace == InitTrace /\ [][NextTrace]_vars

\* C29: on a collapse-specialist agent, after any interleaving of
\* store_memory, forget_memory and measure, each measure() increases the
\* number of memory entries by exactly one and leaves every entry that was
\* already in memory (an earlier trace or a stored entry) as it was.
C29_TracesNeverLost ==
    [][(lastOp'.op = "measure" /\ lastOp'.raised = "")
       => LET before == agents[lastOp'.a + 1].memory
              after == agents'[lastOp'.a + 1].memory
          IN  /\ Cardinality(DOMAIN after) = Cardinality(DOMAIN before) + 1
              /\ \A k \in DOMAIN before : k \in DOMAIN after /\ after[k] = before[k]
      ]_vars

\* ---------------------------------------------------------------------------
\* add_intent alone, the delta and the weight of each call kept in lastOp.
\* ---------------------------------------------------------------------------
ResizeInputs == {m \in Arrays(MaxLen) : \A j \in 1..Len(m) : m[j] \in {0, 1}}

DoAddIntentOf(i, m, weight) ==
    LET a == agents[i + 1]
        delta == InUnitOf(m, a.intent)
        r == AddIntent(a, delta, weight)
    IN  /\ InBound(r.agent.intent)
        /\ agents' = [agents EXCEPT ![i + 1] = r.agent]
        /\ lastOp' = [Called("add_intent", i, r) EXCEPT
                         !.zero = IsZeroVec(Combine(1, Resize(a.intent, Len(m)), weight, delta, 1)),
                         !.delta = delta, !.arg = <<weight, 1>>]
        /\ UNCHANGED <<active_agents, last_update, clock, history, evo>>

NextResize == \E i \in AgentIds, m \in ResizeInputs, w \in Weights : DoAddIntentOf(i, m, w)

SpecResize == InitIntent /\ [][NextResize]_vars

\* C28: add_intent(delta) on a stored intent of another length first resizes
\* the stored intent to delta's length, keeping its leading min(len)
\* components and padding with zeros, and then combines; on equal lengths the
\* stored intent is combined as is; after every add_intent(delta) the intent
\* has exactly delta's length.
C28_IntentResized ==
    [][lastOp'.op = "add_intent"
       => LET before == agents[lastOp'.a + 1].intent
              after == agents'[lastOp'.a + 1].intent
              delta == lastOp'.delta
              w == lastOp'.arg[1]
              k == Len(delta.n)
              kept == IF k < Len(before.n) THEN k ELSE Len(before.n)
              stored == Vec([i \in 1..k |-> IF i <= kept THEN before.n[i] ELSE <<0, 0>>],
                            before.d)
              sum == Vec([i \in 1..k |-> <<stored.n[i][1] + w * delta.n[i][1],
                                           stored.n[i][2] + w * delta.n[i][2]>>], before.d)
          IN  /\ Len(after.n) = k
              /\ Len(before.n) = k => stored = before
              /\ lastOp'.raised = "" => after = Normalize(sum)
              /\ lastOp'.raised # "" => after = stored
      ]_vars

\* no agent starts with an intent of length 1: a delta of length 1 was added
\* and the intent was cut or padded to length 1
C28_Witness ==
    /\ lastOp.op = "add_intent" /\ lastOp.raised = ""
    /\ Len(lastOp.delta.n) = 1
    /\ Len(agents[1].intent.n) = 1

\* ---------------------------------------------------------------------------
\* QuantumEnvironment.run_evolution called again and again on one
\* environment: the environment keeps one DarwinEvolutionProtocol, every call
\* passes self.agents and returns protocol.summary().
\* ---------------------------------------------------------------------------
MaxRuns == 2

\* an environment of two agents
InitRuns ==
    /\ \E off \in 1..Len(Roster) : agents = Population(off, 2)
    /\ lastOp = NoOp
    /\ active_agents = 0..(Len(agents) - 1)
    /\ last_update = 0
    /\ clock = 1
    /\ history = << >>
    /\ evo = EvoIdle

\* the next run_evolution(generations = depth) after one that has ended
EvoStartAgain(depth) ==
    /\ evo.pc \in {"returned", "raised"}
    /\ evo.run < MaxRuns
    /\ evo' = [EvoIdle EXCEPT !.pc = "running", !.pop = agents, !.depth = depth,
                              !.base = Len(history), !.run = evo.run + 1]
    /\ clock' = clock + 1
    /\ UNCHANGED <<agents, active_agents, last_update, lastOp, history>>

NextRuns ==
    \/ NextEvo
    \/ \E depth \in 0..MaxDepth : EvoStartAgain(depth)

SpecRuns == InitRuns /\ [][NextRuns]_vars

\* C30: every run_evolution(generations = g) that returns, the second and
\* later ones on the same environment included, returns a history of exactly
\* g events with generation indices 0..g-1, those of that run, and every run
\* starts from the environment's current agent list.
C30_HistoryPerRun ==
    /\ (evo.pc = "running" /\ evo.gen = 0) => evo.pop = agents
    /\ evo.pc = "returned" =>
          /\ Len(history) = evo.depth
          /\ \A g \in 0..(evo.depth - 1) : history[g + 1].generation = g

====
